---- MODULE Spec2Model ----
(***************************************************************************)
(* A model of the Tygra typed-graph core: MObject / MNode / MRelation /    *)
(* Isa (mobjects.py, mnodes.py, mrelations.py), the TGModel registry       *)
(* (typedgraphs.py) and the inheritable Attributes store (attributes.py).  *)
(*                                                                         *)
(* Objects are identified by the local id the IDServer hands out; id 0 is  *)
(* Python's None.  Every method is an operator from a state record to a    *)
(* result record [s |-> state, err |-> an exception left the method].      *)
(***************************************************************************)
EXTENDS Integers, Sequences, FiniteSets, TLC

\* ------------------------------------------------------------------ bounds
MaxCalls == 2        \* calls made on a document after it is loaded
MaxVal == 2          \* attribute values are 1..MaxVal

\* ------------------------------------------------- system objects (TGModel)
None == 0
topNode == 1
topRelation == 2
reflexiveRelation == 3
symmetricRelation == 5
transitiveRelation == 7
tgmodel_isa == 9
RESERVED == 10       \* the last id TGModel.__init__ uses for its own objects

\* ids in use: the system objects, a document of up to RESERVED more objects,
\* and room for the ids the calls may allocate
Slots == 1..(2 * RESERVED + 4 * (MaxCalls + 1))
Fuel == RESERVED + MaxCalls + 1   \* deeper than any acyclic isa chain: Python's RecursionError
Keys == {"k"}

VARIABLES
    cls,        \* id -> "none" | "MNode" | "MRelation" | "Isa"
    fromNode,   \* id -> id or None            (MRelation.fromNode)
    toNode,     \* id -> id or None            (MRelation.toNode)
    relations,  \* id -> sequence of ids       (MObject.relations)
    deleted,    \* id -> BOOLEAN               (MObject._deleted)
    nodes,      \* TGModel._nodes
    rels,       \* TGModel._relations
    nextID,     \* IDServer._nextID
    attrs,      \* id -> key -> Item           (MObject.attrs.attrs)
    hung,       \* a call is running that does not return
    observers,      \* id -> sequence of observers   (MObject.observers)
    attrObservers,  \* id -> sequence of observers   (MObject.attrs.observers after the owner)
    modelObservers, \* TGModel.observers
    heard,          \* the notifications the observers received during the last call
    last,       \* the last call made on the model and how it ended
    calls       \* number of calls made so far

vars == <<cls, fromNode, toNode, relations, deleted, nodes, rels, nextID, attrs, hung,
          observers, attrObservers, modelObservers, heard, last, calls>>

\* ----------------------------------------------------------------- helpers
Range(q) == {q[i] : i \in 1..Len(q)}

RECURSIVE WeakList_remove(_, _)
WeakList_remove(q, x) ==
    IF q = <<>> THEN <<>>
    ELSE IF Head(q) = x THEN Tail(q)
    ELSE <<Head(q)>> \o WeakList_remove(Tail(q), x)

Res(s, err) == [s |-> s, err |-> err]

\* ------------------------------------------------------- attribute records
NoneV == [tag |-> "none", n |-> 0, elems |-> {}]
IntV(n) == [tag |-> "int", n |-> n, elems |-> {}]
SetV(S) == [tag |-> "set", n |-> 0, elems |-> S]

\* a non-empty list: its first element, and its elements as a set
ListV(first, S) == [tag |-> "list", n |-> first, elems |-> S \cup {first}]

\* validator is "nil" for None, or names the function: "shape" for
\* Shape.shapeValidator, "choices" for Item._choiceValidator
NoItem == [kind |-> "absent", value |-> NoneV, final |-> FALSE, editable |-> FALSE,
           default |-> NoneV, validator |-> "nil", choices |-> {}]

\* ------------------------------------------------------------ object model
isIsa(s, r) == s.cls[r] = "Isa"

isRelation(s, e) == s.cls[e] \in {"MRelation", "Isa"}

getTop(s, e) ==
    IF s.cls[e] = "MNode" THEN topNode
    ELSE IF s.cls[e] = "Isa" THEN tgmodel_isa
    ELSE topRelation

IsTop(e) == e \in {topNode, topRelation}

\* the outgoing isa edges of e, in the order of e.relations
OutIsa(s, e) == SelectSeq(s.relations[e], LAMBDA r : isIsa(s, r) /\ s.fromNode[r] = e)

\* MObject.isparent(None): the direct isa parents, in order
isparent(s, e) == [i \in 1..Len(OutIsa(s, e)) |-> s.toNode[OutIsa(s, e)[i]]]

\* MObject.isa(nodeType) for a single nodeType: "T", "F", or "E" when the call
\* raises (the type assertion, or unbounded recursion round an isa cycle)
RECURSIVE isaB(_, _, _, _), isaB_loop(_, _, _, _, _)
isaB(s, e, t, fuel) ==
    IF s.cls[t] # s.cls[e] THEN "E"
    ELSE IF t = e THEN "T"
    ELSE IF IsTop(e) THEN "F"
    ELSE IF fuel = 0 THEN "E"
    ELSE isaB_loop(s, OutIsa(s, e), 1, t, fuel)

isaB_loop(s, q, i, t, fuel) ==
    IF i > Len(q) THEN "F"
    ELSE LET x == IF s.toNode[q[i]] = None THEN "E"
                  ELSE isaB(s, s.toNode[q[i]], t, fuel - 1)
         IN IF x = "F" THEN isaB_loop(s, q, i + 1, t, fuel) ELSE x

isa(s, e, t) == isaB(s, e, t, Fuel)

\* tree-lists: a sequence of leaves and nested lists
Leaf(x) == [leaf |-> TRUE, v |-> x, sub |-> <<>>]
Nested(t) == [leaf |-> FALSE, v |-> None, sub |-> t]

\* MObject.isa(None): the tree-list of all isa ancestors; a leaf None marks
\* the point where the recursion would not return
RECURSIVE isaTree(_, _, _), isaTree_loop(_, _, _, _, _)
isaTree(s, e, fuel) ==
    IF IsTop(e) THEN <<Leaf(e)>>
    ELSE IF fuel = 0 THEN <<Leaf(None)>>
    ELSE <<Leaf(e), Nested(isaTree_loop(s, OutIsa(s, e), 1, <<Leaf(e)>>, fuel))>>

isaTree_loop(s, q, i, ret, fuel) ==
    IF i > Len(q) THEN ret
    ELSE isaTree_loop(s, q, i + 1, ret \o isaTree(s, s.toNode[q[i]], fuel - 1), fuel)

\* util.treeFlatten
RECURSIVE treeFlatten(_, _), treeFlatten_loop(_, _, _, _)
treeFlatten(tree, omit) == treeFlatten_loop(tree, 1, <<>>, omit)

treeFlatten_loop(tree, i, ret, omit) ==
    IF i > Len(tree) THEN ret
    ELSE LET item == tree[i]
             ret2 == IF ~item.leaf THEN ret \o treeFlatten(item.sub, ret)
                     ELSE IF item.v \notin Range(omit) /\ item.v \notin Range(ret)
                          THEN Append(ret, item.v)
                          ELSE ret
         IN treeFlatten_loop(tree, i + 1, ret2, omit)

\* treeFlatten(e.isa())[1:] ; contains None iff e.isa() raises
ancestors(s, e) == Tail(treeFlatten(isaTree(s, e, Fuel), <<>>))

\* ------------------------------------------------------------- Attributes
\* Attributes.Item.__init__(key, value): the kind is inferred from the value.
\* For a list the kind is choices, the value is the first element and
\* _choices the list; the synthesized validator is assigned to the local
\* name validator only, and self.validator keeps the argument, None
Item(value) ==
    [kind |-> IF value.tag = "set" THEN "set"
              ELSE IF value.tag = "int" THEN "int"
              ELSE IF value.tag = "list" THEN "choices"
              ELSE "unknown",
     value |-> IF value.tag = "list" THEN IntV(value.n) ELSE value,
     final |-> FALSE, editable |-> TRUE, default |-> NoneV,
     validator |-> "nil",
     choices |-> IF value.tag = "list" THEN value.elems ELSE {}]

\* a variant that copies the inherited record's value and not its default
DefaultItem_asValue(v) == [v EXCEPT !.editable = TRUE]

\* the Item built in _get from an inherited record that declares a default
DefaultItem(v) ==
    [kind |-> v.kind, value |-> v.default, final |-> v.final, editable |-> TRUE,
     default |-> v.default, validator |-> "nil", choices |-> {}]

\* MObject.getAttrParents / Isa.getAttrParents; a deleted owner has lost its
\* model and the call raises, which Attributes.getParents turns into []
getAttrParents(s, e) ==
    IF s.deleted[e] THEN <<>>
    ELSE IF isIsa(s, e) THEN (IF e = tgmodel_isa THEN <<>> ELSE <<tgmodel_isa>>)
    ELSE IF e = getTop(s, e) THEN <<>>
    ELSE IF isparent(s, e) = <<>> THEN <<getTop(s, e)>>
    ELSE isparent(s, e)

\* Attributes.getParents: the bare except also catches the RecursionError of
\* the deepest call round a cycle of stores, which then sees no parents
getParents(s, e, fuel) == IF fuel = 0 THEN <<>> ELSE getAttrParents(s, e)

\* list(at.value) / [at.value] as the elements added to cumulativeValue
Elems(v) == IF v.tag = "set" THEN v.elems ELSE IF v.tag = "int" THEN {v.n} ELSE {}

\* a record found by _get: the store that owns the Item, and the Item
Found(o, it) == [o |-> o, it |-> it]
NotFound == [o |-> None, it |-> NoItem]

\* Attributes._get: returns the state (a read may write) and the record, or
\* NotFound for None
RECURSIVE _get(_, _, _, _, _, _), _get_parents(_, _, _, _, _, _, _, _, _, _)
_get(s, e, key, includeLocals, includeInherited, fuel) ==
    LET at == s.attrs[e][key]
        local == includeLocals /\ at.kind # "absent"
    IN  IF local /\ at.kind # "set"
        THEN [s |-> s, rec |-> Found(e, at)]
        ELSE _get_parents(s, e, key, includeLocals, includeInherited,
                          IF includeInherited THEN getParents(s, e, fuel) ELSE <<>>, 1,
                          IF local THEN e ELSE None,
                          IF local THEN Elems(at.value) ELSE {}, fuel)

_get_parents(s, e, key, includeLocals, includeInherited, ps, i, cumRec, cumVal, fuel) ==
    IF i > Len(ps)
    THEN IF cumRec # None
         THEN [s |-> [s EXCEPT !.attrs[cumRec][key].value = SetV(cumVal)], rec |-> NotFound]
         ELSE [s |-> s, rec |-> NotFound]
    ELSE
    LET r == _get(s, ps[i], key, TRUE, TRUE, fuel - 1)
        v == r.rec.it
    IN  IF r.rec = NotFound
        THEN _get_parents(r.s, e, key, includeLocals, includeInherited, ps, i + 1, cumRec, cumVal, fuel)
        ELSE IF v.default # NoneV /\ r.s.attrs[e][key].kind = "absent"
        THEN _get([r.s EXCEPT !.attrs[e][key] = DefaultItem(v)], e, key,
                  includeLocals, includeInherited, fuel)
        ELSE IF v.kind = "set" \/ cumRec # None
        THEN _get_parents(r.s, e, key, includeLocals, includeInherited, ps, i + 1,
                          IF cumRec = None THEN r.rec.o ELSE cumRec,
                          cumVal \cup Elems(v.value), fuel)
        ELSE [s |-> r.s, rec |-> r.rec]

\* x = ...; the statements F that use x
With(x, F(_)) == F(x)

\* a statement that may raise, then the statements F, which run if it did not
Bind(r, F(_)) == IF r.err THEN r ELSE F(r.s)

\* a variant that reads without keeping the item it builds from a default
get_keepNothing(s, e, key) ==
    With(_get(s, e, key, TRUE, TRUE, Fuel),
         LAMBDA r : [s |-> s, value |-> IF r.rec = NotFound THEN NoneV ELSE r.rec.it.value])

\* Attributes.get: the value, NoneV for None
get(s, e, key) ==
    With(_get(s, e, key, TRUE, TRUE, Fuel),
         LAMBDA r : [s |-> r.s, value |-> IF r.rec = NotFound THEN NoneV ELSE r.rec.it.value])

\* Attributes.keys()
RECURSIVE keys(_, _, _)
keys(s, e, fuel) ==
    {k \in Keys : s.attrs[e][k].kind # "absent"}
    \cup UNION {keys(s, ps, fuel - 1) : ps \in Range(getParents(s, e, fuel))}

\* the stores keys() and _get() visit from e
RECURSIVE AttrReach(_, _, _)
AttrReach(s, S, n) ==
    IF n = 0 THEN S
    ELSE LET T == S \cup UNION {Range(getAttrParents(s, x)) : x \in S}
         IN IF T = S THEN S ELSE AttrReach(s, T, n - 1)

\* keys() recurses into every parent store again at every level: when a store
\* it visits is its own ancestor along two of its parent entries the visits
\* double at each level down to Python's recursion limit, and the call does
\* not return
keysDiverges(s, e) ==
    \E x \in AttrReach(s, {e}, Fuel) :
        LET ps == getAttrParents(s, x)
        IN Cardinality({i \in 1..Len(ps) : x \in AttrReach(s, {ps[i]}, Fuel)}) >= 2

\* for k in self.keys(): self.get(k)
RECURSIVE getEach(_, _, _)
getEach(s, e, ks) ==
    IF ks = {} THEN s
    ELSE With(CHOOSE x \in ks : TRUE,
              LAMBDA k : getEach(get(s, e, k).s, e, ks \ {k}))

\* a call that does not return: nothing runs after it
Hang(s) == Res([s EXCEPT !.hung = TRUE], TRUE)

settle(s, e) ==
    IF keysDiverges(s, e) THEN Hang(s) ELSE Res(getEach(s, e, keys(s, e, Fuel)), FALSE)

\* what a validator call yields: it raised, or the value it returned
Rejected == [err |-> TRUE, value |-> NoneV]
Accepted(value) == [err |-> FALSE, value |-> value]

\* the names Shape.getShapeClass knows, here one
Shapes == {1}

\* Shape.shapeValidator, the validator TGModel gives the key shape: it raises
\* unless the value names a shape, and returns the name
shapeValidator(value) ==
    IF value.tag = "int" /\ value.n \in Shapes THEN Accepted(value) ELSE Rejected

\* Item._choiceValidator
_choiceValidator(it, val) ==
    IF val.tag = "int" /\ val.n \in it.choices THEN Accepted(val) ELSE Rejected

\* oldRec.validator(value)
validate(it, value) ==
    IF it.validator = "shape" THEN shapeValidator(value)
    ELSE IF it.validator = "choices" THEN _choiceValidator(it, value)
    ELSE Accepted(value)

\* ---------------------------------------------------------------- observers
\* the observers a caller subscribes: a view, "faulty" whose callback raises,
\* and "leaver" that unsubscribes from its subject inside its callback
Observers == {"view", "faulty", "leaver"}

\* info of a notification: (key, value) of 'mod attr', the relation of
\* 'add rel' and 'del rel', and Info("", NoneV, None) for none
Info(key, value, rel) == [key |-> key, value |-> value, rel |-> rel]

\* a notification as observer o received it: through a store ("attrs"), an
\* entity ("object") or the model ("model"), about src
Heard(o, via, src, op, info) == [o |-> o, via |-> via, src |-> src, op |-> op, info |-> info]

\* the record tells one delivery from several; it does not count the
\* repetitions of a recursion that runs into Python's recursion limit
Many == 2
Count(q, d) == Cardinality({i \in 1..Len(q) : q[i] = d})
hear(s, d) == [s EXCEPT !.heard = IF Count(@, d) >= Many THEN @ ELSE Append(@, d)]

\* o.notifyModelChanged(e, op, info) for an observer of the entity e
ModelObserver_notifyModelChanged(s, e, o, op, info) ==
    With(hear(s, Heard(o, "object", e, op, info)),
         LAMBDA s1 : Res(IF o = "leaver" THEN [s1 EXCEPT !.observers[e] = WeakList_remove(@, o)]
                         ELSE s1,
                         o = "faulty"))

\* MObject.notifyObservers: the loop, from its i-th turn, over the copy obs
\* of the list, each call in try/except
RECURSIVE MObject_notifyObservers_loop(_, _, _, _, _, _)
MObject_notifyObservers_loop(s, e, obs, i, op, info) ==
    IF i > Len(obs) THEN s
    ELSE MObject_notifyObservers_loop(ModelObserver_notifyModelChanged(s, e, obs[i], op, info).s,
                              e, obs, i + 1, op, info)

\* MObject.notifyObservers(op, info); a deleted object has no observers
MObject_notifyObservers(s, e, op, info) ==
    MObject_notifyObservers_loop(s, e, s.observers[e], 1, op, info)

\* the r.fromNode of MObject.notifyAttrChanged: one for every entry of
\* self.relations that is an isa edge to e
isaChildren(s, e) ==
    With(SelectSeq(s.relations[e], LAMBDA r : isIsa(s, r) /\ s.toNode[r] = e),
         LAMBDA q : [i \in 1..Len(q) |-> s.fromNode[q[i]]])

\* MObject.notifyAttrChanged: the observers of e, then every isa child on
\* self.relations; fuel 0 is Python's RecursionError, and a deleted object's
\* relations is None
RECURSIVE MObject_notifyAttrChanged(_, _, _, _, _), notifyAttrChanged_children(_, _, _, _, _, _)
MObject_notifyAttrChanged(s, e, name, value, fuel) ==
    IF fuel = 0 \/ s.deleted[e] THEN Res(s, TRUE)
    ELSE notifyAttrChanged_children(
             MObject_notifyObservers(s, e, "mod attr", Info(name, value, None)),
             isaChildren(s, e), 1, name, value, fuel)

notifyAttrChanged_children(s, q, i, name, value, fuel) ==
    IF i > Len(q) THEN Res(s, FALSE)
    ELSE Bind(MObject_notifyAttrChanged(s, q[i], name, value, fuel - 1),
              LAMBDA s1 : notifyAttrChanged_children(s1, q, i + 1, name, value, fuel))

\* ob.notifyAttrChanged(attrs, key, value) for an observer of the store of e
AttrObserver_notifyAttrChanged(s, e, o, key, value) ==
    With(hear(s, Heard(o, "attrs", e, "mod attr", Info(key, value, None))),
         LAMBDA s1 : Res(IF o = "leaver" THEN [s1 EXCEPT !.attrObservers[e] = WeakList_remove(@, o)]
                         ELSE s1,
                         o = "faulty"))

\* Attributes.notifyObservers: "for ob in self.observers" from the i-th
\* observer after the owner, over the list as it is at that moment, each call
\* in try/except
RECURSIVE Attributes_notifyObservers_loop(_, _, _, _, _)
Attributes_notifyObservers_loop(s, e, i, key, value) ==
    IF i > Len(s.attrObservers[e]) THEN s
    ELSE Attributes_notifyObservers_loop(
             AttrObserver_notifyAttrChanged(s, e, s.attrObservers[e][i], key, value).s,
             e, i + 1, key, value)

\* Attributes.notifyObservers(key, value): the owner is the first observer
Attributes_notifyObservers(s, e, key, value) ==
    Attributes_notifyObservers_loop(MObject_notifyAttrChanged(s, e, key, value, Fuel).s,
                                    e, 1, key, value)

\* TGModel.notifyObservers(obj, op), from the i-th observer on: no
\* try/except around the callback
RECURSIVE TGModel_notifyObservers(_, _, _, _)
TGModel_notifyObservers(s, obj, op, i) ==
    IF i > Len(s.modelObservers) THEN Res(s, FALSE)
    ELSE With(hear(s, Heard(s.modelObservers[i], "model", obj, op, Info("", NoneV, None))),
              LAMBDA s1 : IF s.modelObservers[i] = "faulty" THEN Res(s1, TRUE)
                          ELSE TGModel_notifyObservers(s1, obj, op, i + 1))

\* the assignments that end Attributes.config, v the validated value or None
config_assign(s, e, key, v, final, editable, default, rec) ==
    Res([s EXCEPT !.attrs[e][key] =
            [rec EXCEPT !.value = IF v # NoneV THEN v ELSE @,
                        !.final = IF final # "nil" THEN final = "true" ELSE @,
                        !.editable = IF editable # "nil" THEN editable = "true" ELSE @,
                        !.default = IF default # NoneV THEN default ELSE @]],
        FALSE)

\* Attributes.config from "if validator is not None" on: the validator given
\* is stored first, then the value goes through the item's validator, which
\* may raise; the observers are told the value given when it differs from
\* the old one
config_validate(s, e, key, value, final, editable, default, rec) ==
    IF value = NoneV THEN config_assign(s, e, key, NoneV, final, editable, default, rec)
    ELSE With(validate(rec, value),
              LAMBDA r : IF r.err THEN Res([s EXCEPT !.attrs[e][key] = rec], TRUE)
                         ELSE Bind(config_assign(s, e, key, r.value, final, editable, default, rec),
                                   LAMBDA s1 : Res(IF value # rec.value
                                                   THEN Attributes_notifyObservers(s1, e, key, value)
                                                   ELSE s1,
                                                   FALSE)))

\* the body of Attributes.config once pRec and oldRec are known
config_set(s, e, key, value, final, editable, default, validator, pRec, oldRec) ==
    IF pRec # NotFound /\ pRec.it.final THEN Res(s, TRUE)
    ELSE IF ~oldRec.editable /\ value # NoneV /\ value # oldRec.value THEN Res(s, TRUE)
    ELSE config_validate(s, e, key, value, final, editable, default,
                         [oldRec EXCEPT !.validator = IF validator # "nil" THEN validator ELSE @])

\* Attributes.config(key, value, final, editable, default, validator); "nil"
\* / NoneV stand for an argument left at None
config(s, e, key, value, final, editable, default, validator) ==
    IF s.attrs[e][key].kind = "absent" THEN Res(s, TRUE)
    ELSE With(_get(s, e, key, FALSE, TRUE, Fuel),
              LAMBDA p : config_set(p.s, e, key, value, final, editable, default, validator,
                                    p.rec, p.s.attrs[e][key]))

\* Attributes.add(name, value, final, editable, default, validator)
add(s, e, name, value, final, editable, default, validator) ==
    With(_get(s, e, name, FALSE, TRUE, Fuel),
         LAMBDA p : IF p.rec # NotFound /\ p.rec.it.final THEN Res(p.s, TRUE)
                    ELSE config([p.s EXCEPT !.attrs[e][name] = Item(value)], e, name, NoneV,
                                IF final THEN "true" ELSE "false",
                                IF editable THEN "true" ELSE "false", default, validator))

\* Attributes.__setitem__
setitem(s, e, key, value) ==
    IF s.attrs[e][key].kind # "absent"
    THEN config(s, e, key, value, "nil", "nil", NoneV, "nil")
    ELSE add(s, e, key, value, FALSE, TRUE, NoneV, "nil")

\* Attributes.remove
remove(s, e, name) == [s EXCEPT !.attrs[e][name] = NoItem]

\* ------------------------------------------------- TGModel register/unregister
register(s, o) ==
    IF isRelation(s, o) THEN TGModel_notifyObservers([s EXCEPT !.rels = @ \cup {o}], o, "add rel", 1)
    ELSE TGModel_notifyObservers([s EXCEPT !.nodes = @ \cup {o}], o, "add node", 1)

\* an object the model does not know makes unregister raise (obj.stringID)
unregister(s, o) ==
    IF isRelation(s, o)
    THEN (IF o \in s.rels THEN TGModel_notifyObservers([s EXCEPT !.rels = @ \ {o}], o, "del rel", 1)
          ELSE Res(s, TRUE))
    ELSE (IF o \in s.nodes THEN TGModel_notifyObservers([s EXCEPT !.nodes = @ \ {o}], o, "del node", 1)
          ELSE Res(s, TRUE))

\* PO.__init__ and the first lines of MObject.__init__: a fresh id, empty
\* relations, _deleted = False, a new Attributes whose constructor reads
\* every inherited key once
PO_init(s, c, frm, to) ==
    With([s EXCEPT !.cls[s.nextID] = c, !.fromNode[s.nextID] = frm, !.toNode[s.nextID] = to,
                   !.relations[s.nextID] = <<>>, !.deleted[s.nextID] = FALSE,
                   !.nextID = @ + 1],
         LAMBDA s1 : IF c = "Isa" THEN s1 ELSE settle(s1, s.nextID).s)

\* MObject.validateType for every declared type
validateType(s, e, typ) ==
    \A i \in 1..Len(typ) : typ[i] # None /\ isRelation(s, e) = isRelation(s, typ[i])

\* MObject.validate
MObject_validate(s, e) == 0

\* x.isa(parent's end), "T" when the parent has no such end
isaEnd(s, x, px) == IF px = None THEN "T" ELSE isa(s, x, px)

\* the two covariance tests of MRelation.validateReferents for parent p
covariance(s, r, p) == <<isaEnd(s, s.toNode[r], s.toNode[p]), isaEnd(s, s.fromNode[r], s.fromNode[p])>>

\* MRelation.validateReferents: the error count, and whether a check raised
MRelation_validateReferents(s, r) ==
    IF ~(   (s.cls[s.fromNode[r]] = "MNode" /\ s.cls[s.toNode[r]] = "MNode")
         \/ (isRelation(s, s.fromNode[r]) /\ isRelation(s, s.toNode[r])))
    THEN [errCount |-> 1, raised |-> FALSE]
    ELSE With([i \in 1..Len(isparent(s, r)) |-> covariance(s, r, isparent(s, r)[i])],
              LAMBDA c : [errCount |-> Cardinality({i \in DOMAIN c : c[i][1] = "F"})
                                       + Cardinality({i \in DOMAIN c : c[i][2] = "F"}),
                          raised |-> \E i \in DOMAIN c : c[i][1] = "E" \/ c[i][2] = "E"])

\* the sanity checks of Isa.validateReferents: redundancy and circularity
Isa_sanity(f, t, frmAncestors, toAncestors) ==
    [errCount |-> (IF t \in Range(frmAncestors) /\ t # f THEN 1 ELSE 0)
                  + (IF f \in Range(toAncestors) THEN 1 ELSE 0),
     raised |-> None \in Range(frmAncestors) \/ None \in Range(toAncestors)]

\* Isa.validateReferents: adds the redundancy and the circularity check
Isa_validateReferents(s, r) ==
    With(MRelation_validateReferents(s, r),
         LAMBDA base : IF base.raised \/ base.errCount > 0 THEN base
                       ELSE Isa_sanity(s.fromNode[r], s.toNode[r],
                                       ancestors(s, s.fromNode[r]), ancestors(s, s.toNode[r])))

\* MRelation.validate() > 0, or an exception on the way
validateFails(s, r) ==
    With(IF isIsa(s, r) THEN Isa_validateReferents(s, r) ELSE MRelation_validateReferents(s, r),
         LAMBDA v : v.raised \/ MObject_validate(s, r) + v.errCount > 0)

\* MObject.addRelation; a deleted object's relations is None and the append
\* raises
addRelation(s, e, r) ==
    IF s.deleted[e] THEN Res(s, TRUE)
    ELSE With(MObject_notifyObservers([s EXCEPT !.relations[e] = Append(@, r)], e,
                                      "add rel", Info("", NoneV, r)),
              LAMBDA s1 : IF isIsa(s1, r) /\ s1.fromNode[r] = e THEN settle(s1, e)
                          ELSE Res(s1, FALSE))

\* the deletions list of Isa._post__init__
RECURSIVE redundant(_, _, _, _)
redundant(s, f, toAncestors, i) ==
    IF i > Len(toAncestors) THEN <<>>
    ELSE SelectSeq(s.relations[f], LAMBDA r : isIsa(s, r) /\ s.toNode[r] = toAncestors[i])
         \o redundant(s, f, toAncestors, i + 1)

RECURSIVE Isa_new(_, _, _), MRelation_delete(_, _), MObject_delete(_, _),
          notifyRelationDeletion(_, _, _), notifyNodeDeletion(_, _, _),
          deleteAll(_, _, _), notifyAll(_, _, _, _)

\* for r in deletions: r.delete()  -- the first exception ends the loop
deleteAll(s, q, i) ==
    IF i > Len(q) THEN Res(s, FALSE)
    ELSE Bind(MRelation_delete(s, q[i]), LAMBDA s1 : deleteAll(s1, q, i + 1))

\* Isa._post__init__ without the pruning
Isa_prune_keepAll(s, frm, toAncestors) == Res(s, None \in Range(toAncestors))

\* the end of Isa._post__init__: the now redundant edges of frm are deleted
Isa_prune(s, frm, toAncestors) ==
    IF None \in Range(toAncestors) THEN Res(s, TRUE)
    ELSE deleteAll(s, redundant(s, frm, toAncestors, 1), 1)

\* Isa(tgmodel, frm, to): MObject.__init__ registers the edge, then
\* Isa._post__init__ validates, attaches and prunes
Isa_new(s, frm, to) ==
    Bind(register(PO_init(s, "Isa", frm, to), s.nextID),
         LAMBDA s1 :
            IF validateFails(s1, s.nextID) THEN Res(s1, TRUE)
            ELSE Bind(addRelation(s1, frm, s.nextID),
                      LAMBDA s2 : Bind(addRelation(s2, to, s.nextID),
                                       LAMBDA s3 : Isa_prune(s3, frm, ancestors(s3, to)))))

\* the last lines of MObject.notifyRelationDeletion: an isa edge from a
\* relation that has lost its ends makes removeObserver raise
notifyRelationDeletion_end(s, r) ==
    Res(s, isIsa(s, r) /\ isRelation(s, s.fromNode[r]) /\ s.toNode[s.fromNode[r]] = None)

\* notifyRelationDeletion_isa without the replacement edge to the root
notifyRelationDeletion_noRoot(s, e, r) == notifyRelationDeletion_end(s, r)

\* MObject.notifyRelationDeletion, once the relation is off the list
notifyRelationDeletion_isa(s, e, r) ==
    IF isIsa(s, r) /\ s.fromNode[r] = e /\ OutIsa(s, e) = <<>> /\ ~s.deleted[e]
    THEN Bind(Isa_new(s, e, IF isRelation(s, e) THEN topRelation ELSE topNode),
              LAMBDA s1 : notifyRelationDeletion_end(s1, r))
    ELSE notifyRelationDeletion_end(s, r)

\* MObject.notifyRelationDeletion
notifyRelationDeletion(s, e, r) ==
    notifyRelationDeletion_isa(
        MObject_notifyObservers([s EXCEPT !.relations[e] = WeakList_remove(@, r)], e,
                                "del rel", Info("", NoneV, r)),
        e, r)

\* MRelation.delete: both notifications sit in try/except; a relation that
\* was deleted before has lost its model and the handler itself raises
MRelation_delete(s, r) ==
    IF s.deleted[r] THEN Res(s, TRUE)
    ELSE With(notifyRelationDeletion(s, s.fromNode[r], r).s,
              LAMBDA s1 : With(notifyRelationDeletion(s1, s1.toNode[r], r).s,
                               LAMBDA s2 : MObject_delete([s2 EXCEPT !.fromNode[r] = None,
                                                                     !.toNode[r] = None], r)))

\* MRelation.notifyNodeDeletion
notifyNodeDeletion(s, r, node) ==
    IF node \in {s.toNode[r], s.fromNode[r]} THEN MRelation_delete(s, r)
    ELSE Res(s, s.deleted[r])

\* for r in rels: try: r.notifyNodeDeletion(self) except: log
notifyAll(s, q, i, node) ==
    IF i > Len(q) THEN s
    ELSE notifyAll(notifyNodeDeletion(s, q[i], node).s, q, i + 1, node)

\* MObject.delete; on a deleted object observers is None and
\* len(self.observers) raises before anything is touched
MObject_delete(s, e) ==
    IF s.deleted[e] THEN Res(s, TRUE)
    ELSE With(notifyAll([MObject_notifyObservers([s EXCEPT !.deleted[e] = TRUE], e, "del",
                                                 Info("", NoneV, None))
                            EXCEPT !.observers[e] = <<>>],
                        s.relations[e], 1, e),
              LAMBDA s1 : unregister([s1 EXCEPT !.relations[e] = <<>>], e))

\* for t in typ: Isa(self.tgmodel, frm=self, to=t)
RECURSIVE makeIsas(_, _, _, _)
makeIsas(s, e, typ, i) ==
    IF i > Len(typ) THEN Res(s, FALSE)
    ELSE Bind(Isa_new(s, e, typ[i]), LAMBDA s1 : makeIsas(s1, e, typ, i + 1))

\* MObject.__init__ for an object made at run time
MObject_init(s, c, frm, to, typ) ==
    With(PO_init(s, c, frm, to),
         LAMBDA s1 : IF ~validateType(s1, s.nextID, typ) THEN Res(s1, TRUE)
                     ELSE Bind(makeIsas(s1, s.nextID, typ, 1),
                               LAMBDA s2 : register(s2, s.nextID)))

\* MNode(tgmodel, typ)
MNode_new(s, typ) == MObject_init(s, "MNode", None, None, typ)

\* MRelation(tgmodel, frm, to, typ): MObject.__init__, then _post__init__
MRelation_new(s, frm, to, typ) ==
    Bind(MObject_init(s, "MRelation", frm, to, typ),
         LAMBDA s1 : IF validateFails(s1, s.nextID) THEN Res(s1, TRUE)
                     ELSE Bind(addRelation(s1, frm, s.nextID),
                               LAMBDA s2 : addRelation(s2, to, s.nextID)))

\* ------------------------------------------------------------------ state
Cur == [cls |-> cls, fromNode |-> fromNode, toNode |-> toNode, relations |-> relations,
        deleted |-> deleted, nodes |-> nodes, rels |-> rels, nextID |-> nextID,
        attrs |-> attrs, hung |-> hung,
        observers |-> observers, attrObservers |-> attrObservers,
        modelObservers |-> modelObservers, heard |-> heard]

Install(s) ==
    /\ cls' = s.cls
    /\ fromNode' = s.fromNode
    /\ toNode' = s.toNode
    /\ relations' = s.relations
    /\ deleted' = s.deleted
    /\ nodes' = s.nodes
    /\ rels' = s.rels
    /\ nextID' = s.nextID
    /\ attrs' = s.attrs
    /\ hung' = s.hung
    /\ observers' = s.observers
    /\ attrObservers' = s.attrObservers
    /\ modelObservers' = s.modelObservers
    /\ heard' = s.heard

\* the model as TGModel.__init__ leaves it: topNode, topRelation, the three
\* property relations with their isa edges, the top isa and its isa edge
TGModel_init ==
    [cls |-> [i \in Slots |->
                 IF i = topNode THEN "MNode"
                 ELSE IF i \in {topRelation, reflexiveRelation, symmetricRelation, transitiveRelation}
                      THEN "MRelation"
                 ELSE IF i \in {4, 6, 8, tgmodel_isa, RESERVED} THEN "Isa"
                 ELSE "none"],
     fromNode |-> [i \in Slots |->
                 IF i \in {topRelation, reflexiveRelation, symmetricRelation, transitiveRelation, tgmodel_isa}
                 THEN topNode
                 ELSE IF i \in {4, 6, 8} THEN i - 1
                 ELSE IF i = RESERVED THEN tgmodel_isa
                 ELSE None],
     toNode |-> [i \in Slots |->
                 IF i \in {topRelation, reflexiveRelation, symmetricRelation, transitiveRelation, tgmodel_isa}
                 THEN topNode
                 ELSE IF i \in {4, 6, 8} THEN topRelation
                 ELSE IF i = RESERVED THEN transitiveRelation
                 ELSE None],
     relations |-> [i \in Slots |->
                 IF i = topNode THEN <<2, 2, 3, 3, 5, 5, 7, 7, 9, 9>>
                 ELSE IF i = topRelation THEN <<4, 6, 8>>
                 ELSE IF i = reflexiveRelation THEN <<4>>
                 ELSE IF i = symmetricRelation THEN <<6>>
                 ELSE IF i = transitiveRelation THEN <<8, 10>>
                 ELSE IF i = tgmodel_isa THEN <<10>>
                 ELSE <<>>],
     deleted |-> [i \in Slots |-> FALSE],
     nodes |-> {topNode},
     rels |-> 2..RESERVED,
     nextID |-> RESERVED + 1,
     attrs |-> [i \in Slots |-> [k \in Keys |-> NoItem]],
     hung |-> FALSE,
     observers |-> [i \in Slots |-> <<>>],
     attrObservers |-> [i \in Slots |-> <<>>],
     modelObservers |-> <<>>,
     heard |-> <<>>]

NoCall == [op |-> "init", arg |-> None, err |-> FALSE]
Call(op, arg, err) == [op |-> op, arg |-> arg, err |-> err]

InitFrom(s) ==
    /\ cls = s.cls
    /\ fromNode = s.fromNode
    /\ toNode = s.toNode
    /\ relations = s.relations
    /\ deleted = s.deleted
    /\ nodes = s.nodes
    /\ rels = s.rels
    /\ nextID = s.nextID
    /\ attrs = s.attrs
    /\ hung = s.hung
    /\ observers = s.observers
    /\ attrObservers = s.attrObservers
    /\ modelObservers = s.modelObservers
    /\ heard = s.heard

\* a document of three node types: TypeA, TypeB and TypeC isa [TypeA, TypeB]
TypeA == RESERVED + 1
TypeB == RESERVED + 3
TypeC == RESERVED + 5
Diamond ==
    MNode_new(MNode_new(MNode_new(TGModel_init, <<topNode>>).s, <<topNode>>).s,
              <<TypeA, TypeB>>).s

\* a document with a typed relation: node type TypeA, relation type RelP from
\* TypeA to TypeA, node NodeA isa TypeA, relation RelR from NodeA to NodeA of
\* type RelP
RelP == RESERVED + 3
NodeA == RESERVED + 5
RelR == RESERVED + 7
Typed ==
    MRelation_new(
        MNode_new(
            MRelation_new(MNode_new(TGModel_init, <<topNode>>).s,
                          TypeA, TypeA, <<topRelation>>).s,
            <<TypeA>>).s,
        NodeA, NodeA, <<RelP>>).s

Documents == {TGModel_init, Diamond, Typed}

Init == \E s \in Documents : InitFrom(s) /\ calls = 0 /\ last = NoCall

\* ---------------------------------------------------------------- inputs
\* what a caller can pass: objects the model lists and that are not deleted
Live(s) == {e \in s.nodes \cup s.rels : ~s.deleted[e]}
LiveNodes(s) == {e \in Live(s) : s.cls[e] = "MNode"}
LiveRelations(s) == {e \in Live(s) : s.cls[e] = "MRelation"}
LiveIsas(s) == {e \in Live(s) : s.cls[e] = "Isa"}
Entities(s) == LiveNodes(s) \cup LiveRelations(s)
Made(S) == {e \in S : e > RESERVED}

\* a type argument: one type, or a list of two different types
TypLists(S) == {<<t>> : t \in S} \cup {<<p[1], p[2]>> : p \in {q \in S \X S : q[1] < q[2]}}

\* the relation types a caller draws on: the top relation and those it made
RelTypes(s) == {topRelation} \cup Made(LiveRelations(s))

\* the entities of the same variety (node or relation) as e, up to its top
Variety(s, e) == {t \in Made(Entities(s)) \cup {topNode, topRelation} :
                    s.cls[t] = s.cls[e]}

\* a call is taken when no call is running, while the call bound and the id
\* space allow it
Fits(s) == ~hung /\ calls < MaxCalls /\ s.nextID \in Slots

Done(op, arg, r) ==
    Fits(r.s) /\ Install(r.s) /\ calls' = calls + 1 /\ last' = Call(op, arg, r.err)

\* ---------------------------------------------------------------- actions
\* TGModel.makeNode(typ) / MNode(tgmodel, typ)
MakeNode ==
    \E typ \in TypLists(LiveNodes(Cur)) :
        Done("MNode", nextID, MNode_new(Cur, typ))

\* MRelation(tgmodel, frm, to, typ)
NewRelation ==
    \E frm \in LiveNodes(Cur), to \in LiveNodes(Cur), typ \in RelTypes(Cur) :
        Done("MRelation", nextID, MRelation_new(Cur, frm, to, <<typ>>))

\* Isa(tgmodel, frm, to)
NewIsa ==
    \E frm \in Made(Entities(Cur)) : \E to \in Variety(Cur, frm) :
        Done("Isa", nextID, Isa_new(Cur, frm, to))

\* n.delete() for a node made by a caller
DeleteNode ==
    \E n \in Made(LiveNodes(Cur)) :
        Done("MNode.delete", n, MObject_delete(Cur, n))

\* r.delete() for a relation or an isa edge made by a caller
DeleteRelation ==
    \E x \in Made(LiveRelations(Cur) \cup LiveIsas(Cur)) :
        Done("MRelation.delete", x, MRelation_delete(Cur, x))

Next == MakeNode \/ NewRelation \/ NewIsa \/ DeleteNode \/ DeleteRelation

Spec == Init /\ [][Next]_vars

TypeOK ==
    /\ calls \in 0..MaxCalls
    /\ hung \in BOOLEAN
    /\ \A e \in Slots : cls[e] = "none" <=> e >= nextID

\* ------------------------------------------------- the attribute stores
\* the stores of the Diamond document a caller reads and writes: those of
\* topNode, TypeA, TypeB and TypeC, with TypeC's parents in the order
\* [TypeA, TypeB]
AttrStores == {topNode, TypeA, TypeB, TypeC}

Ints == {IntV(n) : n \in 1..MaxVal}

\* the values a caller stores: ints, and a set
Values == Ints \cup {SetV({1})}

\* a list of choices: [1, 1, ..., MaxVal - 1], which leaves MaxVal out
Choices == ListV(1, 1..(MaxVal - 1))

\* the arguments of add after the key, <<value, final, editable, default,
\* validator>>: an int left plain, made final, made non-editable, or given a
\* default (and made final too); an int with a validator; a set or a list of
\* choices, left plain
AddArgs ==
    {<<v, f[1], f[2], f[3], "nil">> :
        v \in Ints,
        f \in {<<FALSE, TRUE, NoneV>>, <<TRUE, TRUE, NoneV>>, <<FALSE, FALSE, NoneV>>,
               <<FALSE, TRUE, IntV(MaxVal)>>, <<TRUE, TRUE, IntV(MaxVal)>>}}
    \cup {<<IntV(1), FALSE, TRUE, NoneV, "shape">>}
    \cup {<<v, FALSE, TRUE, NoneV, "nil">> : v \in (Values \ Ints) \cup {Choices}}

\* config is called with one of value, final, editable and validator:
\* <<value, final, editable, validator>>
ConfigArgs ==
    {<<v, "nil", "nil", "nil">> : v \in Ints}
    \cup {<<NoneV, f, "nil", "nil">> : f \in {"true", "false"}}
    \cup {<<NoneV, "nil", f, "nil">> : f \in {"true", "false"}}
    \cup {<<NoneV, "nil", "nil", "shape">>}

AttrInit == InitFrom(Diamond) /\ calls = 0 /\ last = NoCall

\* e.attrs.add("k", v, final=..., editable=..., default=...)
AttrAdd ==
    \E e \in AttrStores, a \in AddArgs :
        Done("add", e, add(Cur, e, "k", a[1], a[2], a[3], a[4], a[5]))

\* e.attrs.config("k", ...)
AttrConfig ==
    \E e \in AttrStores, a \in ConfigArgs :
        Done("config", e, config(Cur, e, "k", a[1], a[2], a[3], NoneV, a[4]))

\* e.attrs["k"] = v
AttrSetItem ==
    \E e \in AttrStores, v \in Ints :
        Done("setitem", e, setitem(Cur, e, "k", v))

\* e.attrs.get("k"); the read may leave a local item behind
AttrGet ==
    \E e \in AttrStores :
        Done("get", e, Res(get(Cur, e, "k").s, FALSE))

\* e.attrs.remove("k")
AttrRemove ==
    \E e \in AttrStores :
        Done("remove", e, Res(remove(Cur, e, "k"), FALSE))

AttrNext == AttrAdd \/ AttrConfig \/ AttrSetItem \/ AttrGet \/ AttrRemove

AttrSpec == AttrInit /\ [][AttrNext]_vars

\* ---------------------------------------------------------- the isa graph
\* the direct isa parents of e as a set
Parents(s, e) == Range(isparent(s, e)) \ {None}

\* everything reachable from the set S by n or fewer isa edges
RECURSIVE Reach(_, _, _)
Reach(s, S, n) ==
    IF n = 0 THEN S
    ELSE LET T == S \cup UNION {Parents(s, x) : x \in S}
         IN IF T = S THEN S ELSE Reach(s, T, n - 1)

\* what e reaches by one or more isa edges
Up(s, e) == Reach(s, Parents(s, e), Cardinality(Slots))

\* what e reaches by zero or more isa edges
UpRefl(s, e) == {e} \cup Up(s, e)

NoIsaCycle(s) == \A e \in Made(Entities(s)) : e \notin Up(s, e)

\* C1: no entity made through the factory calls reaches itself by one or more
\* outgoing isa edges, whatever creations and deletions came before.
C1_Acyclic == NoIsaCycle(Cur)

\* C2: no entity has two outgoing isa edges (e,t) and (e,t2) with t2 a proper
\* isa ancestor of t -- stated for the states whose isa graph has no cycle, so
\* that a violation does not rest on a cycle.
C2_NonRedundant ==
    NoIsaCycle(Cur) =>
        \A e \in Made(Entities(Cur)) :
            \A t \in Parents(Cur, e), t2 \in Parents(Cur, e) :
                t2 # t => t2 \notin Up(Cur, t)

Attached(s) == {r \in s.rels : s.fromNode[r] # None /\ r \in Range(s.relations[s.fromNode[r]])}

\* C4: for every live relation r and every direct isa parent p of r,
\* r.fromNode.isa(p.fromNode) and r.toNode.isa(p.toNode) -- stated for the
\* relations whose creation succeeded, in states where no call is stuck.
C4_Covariance ==
    ~hung =>
        \A r \in Attached(Cur) : \A p \in Parents(Cur, r) :
            /\ isa(Cur, fromNode[r], fromNode[p]) = "T"
            /\ isa(Cur, toNode[r], toNode[p]) = "T"

\* C5: a relation or isa-edge creation that raises leaves the registry of
\* nodes and relations and every incident-relation list as they were.
C5_FailedCreationLeavesNoTrace ==
    [][(last'.op \in {"MRelation", "Isa"} /\ last'.err /\ ~hung')
        => (nodes' = nodes /\ rels' = rels /\ relations' = relations)]_vars

\* C6: when delete() of a node has returned, no relation registered in the
\* model has the node as fromNode or toNode, no incident-relation list holds
\* a relation of the node, and every live entity has an isa parent.
C6_NodeDeleteCascades ==
    (last.op = "MNode.delete" /\ ~last.err) =>
        /\ \A r \in rels : fromNode[r] # last.arg /\ toNode[r] # last.arg
        /\ \A e \in Entities(Cur) \ {topNode, topRelation} : OutIsa(Cur, e) # <<>>

\* two entities of the same variety: both nodes or both relations
SameVariety(s, e, t) == isRelation(s, e) = isRelation(s, t)

\* C7: for e and t of the same variety, e.isa(t) is true exactly when t is
\* reachable from e by zero or more isa edges.
C7_IsaIsReachability ==
    ~hung =>
        \A e \in Live(Cur), t \in Live(Cur) :
            SameVariety(Cur, e, t) =>
                /\ isa(Cur, e, t) \in {"T", "F"}
                /\ (isa(Cur, e, t) = "T") <=> (t \in UpRefl(Cur, e))

\* ------------------------------------------------- attribute inheritance
\* the ancestor stores of e: its parents, their parents, and so on
AttrUp(s, e) == AttrReach(s, Range(getAttrParents(s, e)), Fuel)

\* e holds key locally
Holds(s, e, key) == s.attrs[e][key].kind # "absent"

\* no store among e and its ancestors holds key with kind set
NoSet(s, e, key) == \A x \in AttrReach(s, {e}, Fuel) : s.attrs[x][key].kind # "set"

\* e and its ancestors hold key, if at all, as an int that declares no default
PlainInts(s, e, key) ==
    \A x \in AttrReach(s, {e}, Fuel) :
        Holds(s, x, key) => s.attrs[x][key].kind = "int" /\ s.attrs[x][key].default = NoneV

\* C8: if an ancestor store of e holds k marked final, e.add(k, v) fails for
\* every value v and e.get(k) afterwards returns that ancestor's value --
\* stated for int values, where no store involved holds a set or a default.
C8_FinalBlocksOverride ==
    \A e \in AttrStores : \A a \in AttrUp(Cur, e) :
        (PlainInts(Cur, e, "k") /\ Holds(Cur, a, "k") /\ attrs[a]["k"].final) =>
            \A v \in Ints :
                With(add(Cur, e, "k", v, FALSE, TRUE, NoneV, "nil"),
                     LAMBDA r : r.err /\ get(r.s, e, "k").value = attrs[a]["k"].value)

\* C9: once a store holds k locally with editable = false and value v, an
\* add, config or []-assignment on that store leaves get(k) at v -- stated
\* for int items.
C9_NonEditableKeepsValue ==
    [][\A e \in AttrStores :
          (/\ attrs[e]["k"].kind = "int" /\ ~attrs[e]["k"].editable
           /\ last'.op \in {"add", "config", "setitem"} /\ last'.arg = e)
          => get(Cur', e, "k").value = attrs[e]["k"].value]_vars

\* the value get(key) returns for the first store of ps, from index i on,
\* for which it is not None
RECURSIVE firstResolving(_, _, _, _)
firstResolving(s, ps, i, key) ==
    IF i > Len(ps) THEN NoneV
    ELSE With(get(s, ps[i], key).value,
              LAMBDA v : IF v # NoneV THEN v ELSE firstResolving(s, ps, i + 1, key))

\* after e.add(key, v) returns, e.get(key) is v and get(key) of every parent
\* of e is what it was
addOverrides(s, e, key, v) ==
    With(add(s, e, key, v, FALSE, TRUE, NoneV, "nil"),
         LAMBDA r : r.err \/
             /\ get(r.s, e, key).value = v
             /\ \A p \in Range(getAttrParents(s, e)) :
                    get(r.s, p, key).value = get(s, p, key).value)

Unresolved == [value |-> NoneV, default |-> NoneV]

RECURSIVE resolved(_, _, _, _), resolvedFrom(_, _, _, _, _)
resolved(s, e, key, fuel) ==
    IF Holds(s, e, key)
    THEN [value |-> s.attrs[e][key].value, default |-> s.attrs[e][key].default]
    ELSE IF fuel = 0 THEN Unresolved
    ELSE resolvedFrom(s, getAttrParents(s, e), 1, key, fuel)

resolvedFrom(s, ps, i, key, fuel) ==
    IF i > Len(ps) THEN Unresolved
    ELSE With(resolved(s, ps[i], key, fuel - 1),
              LAMBDA r : IF r = Unresolved THEN resolvedFrom(s, ps, i + 1, key, fuel)
                         ELSE IF r.default # NoneV
                         THEN [value |-> r.default, default |-> r.default]
                         ELSE r)

Holders(s, e, key) == {x \in AttrReach(s, {e}, Fuel) : Holds(s, x, key)}

\* C11: where every item for k among a store and its ancestors is of kind
\* set, and there is one, get(k) is the union of the values of all of them.
C11_SetUnion ==
    \A e \in AttrStores :
        (/\ Holders(Cur, e, "k") # {}
         /\ \A x \in Holders(Cur, e, "k") : attrs[x]["k"].kind = "set")
        => get(Cur, e, "k").value =
              SetV(UNION {Elems(attrs[x]["k"].value) : x \in Holders(Cur, e, "k")})

\* C12: on a store that holds no local item for k and inherits k from an
\* ancestor, config(k, v) is accepted; afterwards get(k) on that store is v
\* and the ancestors' items are as they were -- stated for int items that
\* are not final and declare no default.
C12_ConfigMaterializes ==
    \A e \in AttrStores :
        (/\ ~Holds(Cur, e, "k") /\ Holders(Cur, e, "k") # {}
         /\ PlainInts(Cur, e, "k")
         /\ \A x \in Holders(Cur, e, "k") : ~attrs[x]["k"].final)
        => \A v \in Ints :
              With(config(Cur, e, "k", v, "nil", "nil", NoneV, "nil"),
                   LAMBDA r : /\ ~r.err
                              /\ get(r.s, e, "k").value = v
                              /\ \A x \in Holders(Cur, e, "k") : r.s.attrs[x] = attrs[x])

\* config's validator raises on value: the validator in force once the one
\* passed, if any, has replaced the item's
validatorRaises(s, e, key, value, validator) ==
    /\ Holds(s, e, key)
    /\ validate([s.attrs[e][key] EXCEPT !.validator =
                    IF validator # "nil" THEN validator ELSE @], value).err

\* C13: a config whose validator raises on the proposed value fails, leaves
\* get(k) at its prior value and leaves the item's other fields (final,
\* editable, kind, default, validator) as they were.
C13_RejectedConfigChangesNothing ==
    \A e \in AttrStores, v \in Ints, f \in {"nil", "shape"} :
        validatorRaises(Cur, e, "k", v, f)
        => With(config(Cur, e, "k", v, "nil", "nil", NoneV, f),
                LAMBDA r : /\ r.err
                           /\ get(r.s, e, "k").value = get(Cur, e, "k").value
                           /\ r.s.attrs[e]["k"] = attrs[e]["k"])

\* C14: right after an accepted add(k, [v0, c1, ..., cn]) that passes no
\* validator, get(k) is v0, and config(k, x) is rejected for every x outside
\* the list and accepted, get(k) becoming x, for every x in it.
C14_ChoicesValidated ==
    \A e \in AttrStores :
        (last = Call("add", e, FALSE) /\ attrs[e]["k"].kind = "choices")
        => /\ get(Cur, e, "k").value = IntV(Choices.n)
           /\ \A x \in Ints :
                 With(config(Cur, e, "k", x, "nil", "nil", NoneV, "nil"),
                      LAMBDA r : IF x.n \in Choices.elems
                                 THEN ~r.err /\ get(r.s, e, "k").value = x
                                 ELSE r.err /\ get(r.s, e, "k").value = IntV(Choices.n))

\* ------------------------------------------------------ relatedness queries
\* r.properties: class MRelation defines no attribute of that name, so
\* reading it raises AttributeError
MRelation_properties(s, r) == "E"

\* MObject.isRelatedTo(relType, toNode), the loop over self.relations from
\* its i-th entry: "T", "F", or "E" when the call raises. r.isa(relType)
\* raises on an isa edge; a relation that isa relType answers when it runs
\* from self to toNode, and otherwise its properties are read
RECURSIVE isRelatedTo_loop(_, _, _, _, _)
isRelatedTo_loop(s, e, relType, to, i) ==
    IF i > Len(s.relations[e]) THEN "F"
    ELSE With(s.relations[e][i],
              LAMBDA r : With(isa(s, r, relType),
                              LAMBDA x : IF x = "E" THEN "E"
                                         ELSE IF x = "F"
                                              THEN isRelatedTo_loop(s, e, relType, to, i + 1)
                                         ELSE IF s.fromNode[r] = e /\ s.toNode[r] = to THEN "T"
                                         ELSE MRelation_properties(s, r)))

\* e.isRelatedTo(relType, toNode) with a toNode; relType is asserted to be a
\* relation, and a deleted object has no list of relations to walk
isRelatedTo(s, e, relType, to) ==
    IF ~isRelation(s, relType) \/ s.deleted[e] THEN "E"
    ELSE isRelatedTo_loop(s, e, relType, to, 1)

\* what e.isRelatedTo(relType) yields: it raised, or the set it returned
Raised == [err |-> TRUE, set |-> {}]
Related(S) == [err |-> FALSE, set |-> S]

\* MObject.isRelatedTo(relType), the loop over self.relations from its i-th
\* entry with the result collected so far: a relation that isa relType is
\* appended when it leaves self, and then its properties are read
RECURSIVE isRelatedToAll_loop(_, _, _, _, _)
isRelatedToAll_loop(s, e, relType, i, result) ==
    IF i > Len(s.relations[e]) THEN Related(result)
    ELSE With(s.relations[e][i],
              LAMBDA r : With(isa(s, r, relType),
                              LAMBDA x : IF x = "E" THEN Raised
                                         ELSE IF x = "F"
                                              THEN isRelatedToAll_loop(s, e, relType, i + 1, result)
                                         ELSE IF MRelation_properties(s, r) = "E" THEN Raised
                                         ELSE isRelatedToAll_loop(s, e, relType, i + 1,
                                                  IF s.fromNode[r] = e
                                                  THEN result \cup {s.toNode[r]}
                                                  ELSE result)))

\* e.isRelatedTo(relType) without a toNode
isRelatedToAll(s, e, relType) ==
    IF ~isRelation(s, relType) \/ s.deleted[e] THEN Raised
    ELSE isRelatedToAll_loop(s, e, relType, 1, {})

\* ------------------------------------------------- the relation documents
\* three nodes alice, bob and carol isa topNode, and a relation type knows
\* from topNode to topNode of the type(s) typ
alice == RESERVED + 1
bob == RESERVED + 3
carol == RESERVED + 5
knows == RESERVED + 7
People == {alice, bob, carol}

RelDocument(typ) ==
    MRelation_new(
        MNode_new(MNode_new(MNode_new(TGModel_init, <<topNode>>).s, <<topNode>>).s,
                  <<topNode>>).s,
        topNode, topNode, typ).s

\* knows is a plain relation type, or reflexive, symmetric, transitive, or
\* symmetric and transitive
RelDocuments ==
    {RelDocument(typ) :
        typ \in {<<topRelation>>, <<reflexiveRelation>>, <<symmetricRelation>>,
                 <<transitiveRelation>>, <<symmetricRelation, transitiveRelation>>}}

RelInit == \E s \in RelDocuments : InitFrom(s) /\ calls = 0 /\ last = NoCall

\* MRelation(tgmodel, frm, to, knows) between two of the three nodes
NewEdge ==
    \E frm \in People, to \in People :
        Done("MRelation", nextID, MRelation_new(Cur, frm, to, <<knows>>))

\* x.delete() for a relation of type knows or an isa edge of the document
DeleteEdge ==
    \E x \in Made(LiveRelations(Cur) \cup LiveIsas(Cur)) \ {knows} :
        Done("MRelation.delete", x, MRelation_delete(Cur, x))

\* a.isRelatedTo(knows, b), and a.isRelatedTo(knows) when b is None
IsRelatedTo ==
    \E a \in People, b \in People \cup {None} :
        Done("isRelatedTo", a,
             Res(Cur, IF b = None THEN isRelatedToAll(Cur, a, knows).err
                      ELSE isRelatedTo(Cur, a, knows, b) = "E"))

RelNext == NewEdge \/ DeleteEdge \/ IsRelatedTo

RelSpec == RelInit /\ [][RelNext]_vars

\* ----------------------------------------------------- relatedness claims
\* the relations of type relType: those with relType among their isa ancestors
EdgesOf(s, relType) == {r \in LiveRelations(s) : relType \in Up(s, r)}

\* a relation of type relType runs from a to b
Linked(s, relType, a, b) ==
    \E r \in EdgesOf(s, relType) : s.fromNode[r] = a /\ s.toNode[r] = b

\* relType is, or inherits from, the property relation p
hasProperty(s, relType, p) == p \in UpRefl(s, relType)

\* the entities n or fewer relations of type relType away from those of S,
\* following the relations forwards, or both ways when sym
RECURSIVE Chain(_, _, _, _, _)
Chain(s, relType, S, sym, n) ==
    IF n = 0 THEN {}
    ELSE With({y \in Slots : \E x \in S : \/ Linked(s, relType, x, y)
                                          \/ sym /\ Linked(s, relType, y, x)},
              LAMBDA N : N \cup Chain(s, relType, N, sym, n - 1))

\* the entities after a on the chains of relType relations leaving a
Later(s, relType, a) == Chain(s, relType, {a}, FALSE, MaxCalls)

\* the entities joined to a by relType relations taken in either direction
Component(s, relType, a) == Chain(s, relType, {a}, TRUE, MaxCalls)

\* some relation of type relType leaves a
Leaves(s, relType, a) == \E b \in Slots : Linked(s, relType, a, b)

\* C15: where knows inherits no property and a knows relation leaves a,
\* a.isRelatedTo(knows) is exactly the set of the toNodes of the knows
\* relations leaving a, and a.isRelatedTo(knows, b) is true iff such a
\* relation runs from a to b; b.isRelatedTo(knows, a) is false, and
\* b.isRelatedTo(knows) is without a, when none runs from b to a.
C15_PlainRelatedTo ==
    (\A p \in {reflexiveRelation, symmetricRelation, transitiveRelation} :
        ~hasProperty(Cur, knows, p))
    => \A a \in People :
          Leaves(Cur, knows, a)
          => /\ isRelatedToAll(Cur, a, knows)
                   = Related({b \in Slots : Linked(Cur, knows, a, b)})
             /\ \A b \in People :
                   /\ isRelatedTo(Cur, a, knows, b)
                         = IF Linked(Cur, knows, a, b) THEN "T" ELSE "F"
                   /\ (Linked(Cur, knows, a, b) /\ ~Linked(Cur, knows, b, a))
                      => /\ isRelatedTo(Cur, b, knows, a) = "F"
                         /\ ~isRelatedToAll(Cur, b, knows).err
                         /\ a \notin isRelatedToAll(Cur, b, knows).set

\* C16: where knows is symmetric, a knows relation from a to b makes
\* a.isRelatedTo(knows, b) and b.isRelatedTo(knows, a) true, puts b in
\* a.isRelatedTo(knows) and a in b.isRelatedTo(knows); entities that no
\* knows relations join to one that has such a relation stay unrelated to it.
C16_Symmetric ==
    hasProperty(Cur, knows, symmetricRelation)
    => \A a \in People, b \in People :
          /\ Linked(Cur, knows, a, b)
             => /\ isRelatedTo(Cur, a, knows, b) = "T"
                /\ isRelatedTo(Cur, b, knows, a) = "T"
                /\ ~isRelatedToAll(Cur, a, knows).err
                /\ b \in isRelatedToAll(Cur, a, knows).set
                /\ ~isRelatedToAll(Cur, b, knows).err
                /\ a \in isRelatedToAll(Cur, b, knows).set
          /\ (Leaves(Cur, knows, a) /\ b \notin Component(Cur, knows, a))
             => isRelatedTo(Cur, a, knows, b) = "F"

\* C17: where knows is transitive and not symmetric, a.isRelatedTo(knows, x)
\* is true for every x later on a chain of knows relations from a, the set
\* form is exactly those later entities (knows not being reflexive), and the
\* reverse query x.isRelatedTo(knows, a) is false when no chain leads from x
\* to a.
C17_Transitive ==
    (hasProperty(Cur, knows, transitiveRelation) /\ ~hasProperty(Cur, knows, symmetricRelation))
    => \A a \in People :
          /\ \A x \in Later(Cur, knows, a) :
                /\ isRelatedTo(Cur, a, knows, x) = "T"
                /\ (x # a /\ a \notin Later(Cur, knows, x))
                   => isRelatedTo(Cur, x, knows, a) = "F"
          /\ (Leaves(Cur, knows, a) /\ ~hasProperty(Cur, knows, reflexiveRelation))
             => isRelatedToAll(Cur, a, knows) = Related(Later(Cur, knows, a))

\* C18: where knows is reflexive, every entity that is the source or the
\* target of a knows relation is related to itself, in the boolean form and
\* in the set form.
C18_Reflexive ==
    hasProperty(Cur, knows, reflexiveRelation)
    => \A a \in People :
          (\E b \in People : Linked(Cur, knows, a, b) \/ Linked(Cur, knows, b, a))
          => /\ isRelatedTo(Cur, a, knows, a) = "T"
             /\ ~isRelatedToAll(Cur, a, knows).err
             /\ a \in isRelatedToAll(Cur, a, knows).set

\* C19: where knows is symmetric and transitive, a.isRelatedTo(knows, b) is
\* true for any two distinct entities that knows relations, taken in either
\* direction, join.
C19_SymmetricTransitive ==
    (hasProperty(Cur, knows, symmetricRelation) /\ hasProperty(Cur, knows, transitiveRelation))
    => \A a \in People, b \in People :
          (a # b /\ b \in Component(Cur, knows, a))
          => isRelatedTo(Cur, a, knows, b) = "T"

\* -------------------------------------------------- calls on deleted objects
\* the nodes of the Diamond document a caller keeps references to, which
\* stay usable as arguments after the node is deleted
Kept == {TypeA, TypeB, TypeC}

\* Attributes.remove as a call: nothing in it raises
Attributes_remove(s, e, name) == Res(remove(s, e, name), FALSE)

DelInit == InitFrom(Diamond) /\ calls = 0 /\ last = NoCall

\* e.attrs.add("k", v)
DelAdd ==
    \E e \in Kept, v \in Ints :
        Done("add", e, add(Cur, e, "k", v, FALSE, TRUE, NoneV, "nil"))

\* e.attrs.config("k", v)
DelConfig ==
    \E e \in Kept, v \in Ints :
        Done("config", e, config(Cur, e, "k", v, "nil", "nil", NoneV, "nil"))

\* e.attrs.remove("k")
DelRemove ==
    \E e \in Kept :
        Done("remove", e, Attributes_remove(Cur, e, "k"))

\* MRelation(tgmodel, frm, to, topRelation)
DelRelate ==
    \E frm \in Kept \cup {topNode}, to \in Kept \cup {topNode} :
        Done("MRelation", nextID, MRelation_new(Cur, frm, to, <<topRelation>>))

\* e.delete()
DelDelete ==
    \E e \in Kept :
        Done("MNode.delete", e, MObject_delete(Cur, e))

DelNext == DelAdd \/ DelConfig \/ DelRemove \/ DelRelate \/ DelDelete

DelSpec == DelInit /\ [][DelNext]_vars

\* the call raised and left the model as it was
Refused(r) == r.err /\ r.s = Cur

\* C20: on a deleted node every attribute mutation of its store (add, config,
\* remove) and every relation mutation (addRelation, a new relation with the
\* node as an endpoint, a second delete) raises and changes nothing.
C20_DeletedRefusesMutation ==
    \A e \in Kept :
        deleted[e]
        => /\ \A v \in Ints :
                 /\ Refused(add(Cur, e, "k", v, FALSE, TRUE, NoneV, "nil"))
                 /\ Refused(config(Cur, e, "k", v, "nil", "nil", NoneV, "nil"))
           /\ Refused(Attributes_remove(Cur, e, "k"))
           /\ \A r \in LiveRelations(Cur) : Refused(addRelation(Cur, e, r))
           /\ \A x \in Kept \cup {topNode} :
                 /\ Refused(MRelation_new(Cur, e, x, <<topRelation>>))
                 /\ Refused(MRelation_new(Cur, x, e, <<topRelation>>))
           /\ Refused(MObject_delete(Cur, e))

\* ------------------------------------------------- the stores of isa edges
\* x.attrs for an isa edge x: Isa.__init__ swaps in Isa.commonAttrs, which the
\* first such edge creates with itself as owner, only when the model already
\* has its attribute isa; the top isa and the isa edges TGModel.__init__ makes
\* before it keep the Attributes of MObject.__init__
Isa_attrs(e) == IF e > tgmodel_isa THEN RESERVED ELSE e

IsaInit == \E s \in {TGModel_init, Diamond} : InitFrom(s) /\ calls = 0 /\ last = NoCall

\* x.attrs.add("k", v) for an isa edge x
IsaAdd ==
    \E x \in LiveIsas(Cur), v \in Ints :
        Done("add", x, add(Cur, Isa_attrs(x), "k", v, FALSE, TRUE, NoneV, "nil"))

\* x.attrs.remove("k") for an isa edge x
IsaRemove ==
    \E x \in LiveIsas(Cur) :
        Done("remove", x, Attributes_remove(Cur, Isa_attrs(x), "k"))

\* MNode(tgmodel, typ), which makes the isa edges of the new node
IsaMakeNode ==
    \E typ \in TypLists(LiveNodes(Cur)) :
        Done("MNode", nextID, MNode_new(Cur, typ))

IsaNext == IsaAdd \/ IsaRemove \/ IsaMakeNode

IsaSpec == IsaInit /\ [][IsaNext]_vars

\* C21: every isa edge other than the top isa reads the same value for k: what
\* was set through one of them is what get returns on every other, whenever
\* the edge was made.
C21_IsaEdgesShareOneStore ==
    \A x \in LiveIsas(Cur) \ {tgmodel_isa}, y \in LiveIsas(Cur) \ {tgmodel_isa} :
        get(Cur, Isa_attrs(x), "k").value = get(Cur, Isa_attrs(y), "k").value

\* ----------------------------------------------------------- isa pruning
\* the live outgoing isa edges of f that the new edge (f, t) makes redundant:
\* those to a proper isa ancestor of t
Superseded(s, f, t) ==
    {r \in Range(OutIsa(s, f)) : s.toNode[r] \in Up(s, t) \ {t}}

\* the isa edges that hang on their fromNode's list of relations
AttachedIsas(s) == {r \in Attached(s) : isIsa(s, r)}

\* the relations or isa edges of S with their ends
EdgeEnds(s, S) == {<<r, s.fromNode[r], s.toNode[r]>> : r \in S}

\* C24: an accepted Isa(e, t) deletes exactly the outgoing isa edges of e to a
\* proper ancestor of t and adds only the new edge: every other isa edge and
\* every relation stays as it was, and no edge to the root is synthesized;
\* Isa(e, t) with t already an ancestor of e is rejected. The isa edges of an
\* entity are those on its list of relations.
C24_IsaPrunesExactly ==
    [][(last'.op = "Isa" /\ ~hung') =>
        \A e \in Made(Entities(Cur)), t \in Entities(Cur) :
          (fromNode'[nextID] = e /\ toNode'[nextID] = t)
          => /\ t \in Up(Cur, e) => last'.err
             /\ ~last'.err
                => /\ EdgeEnds(Cur', AttachedIsas(Cur'))
                        = EdgeEnds(Cur, AttachedIsas(Cur) \ Superseded(Cur, e, t))
                             \cup {<<nextID, e, t>>}
                   /\ EdgeEnds(Cur', LiveRelations(Cur')) = EdgeEnds(Cur, LiveRelations(Cur))
                   /\ nodes' = nodes]_vars

\* an accepted Isa(e, t) has just deleted an isa edge of e and synthesized none
C24_PrunedOne ==
    /\ calls = 1 /\ last.op = "Isa" /\ ~last.err /\ ~hung
    /\ nextID = last.arg + 1
    /\ \E r \in Slots : cls[r] = "Isa" /\ deleted[r]

\* ------------------------------------------------- default materialization
\* the ancestors e reads key through: its first parent that resolves key,
\* that store's first such parent, and so on up to the store that holds key
RECURSIVE readThrough(_, _, _, _), readThroughFrom(_, _, _, _, _)
readThrough(s, e, key, fuel) ==
    IF Holds(s, e, key) \/ fuel = 0 THEN {}
    ELSE readThroughFrom(s, getAttrParents(s, e), 1, key, fuel)

readThroughFrom(s, ps, i, key, fuel) ==
    IF i > Len(ps) THEN {}
    ELSE IF resolved(s, ps[i], key, fuel - 1) = Unresolved
         THEN readThroughFrom(s, ps, i + 1, key, fuel)
    ELSE {ps[i]} \cup readThrough(s, ps[i], key, fuel - 1)

\* e has no local item for key and the record it resolves key to declares a
\* default; no store involved holds key with kind set
inheritsDefault(s, e, key) ==
    /\ ~Holds(s, e, key) /\ NoSet(s, e, key)
    /\ resolved(s, e, key, Fuel).default # NoneV

\* once e holds the value d locally, no accepted config or add of key on an
\* ancestor changes what e.get(key) returns
pinned(s, e, key, d) ==
    \A a \in AttrUp(s, e) \ {e}, v \in Ints :
        /\ get(config(s, a, key, v, "nil", "nil", NoneV, "nil").s, e, key).value = d
        /\ get(add(s, a, key, v, FALSE, TRUE, NoneV, "nil").s, e, key).value = d

C27_FormsAgree ==
    \A a \in People, b \in People :
        isRelatedTo(Cur, a, knows, b) = "T" <=> b \in isRelatedToAll(Cur, a, knows).set

\* ----------------------------------------------------- registry and lists
\* r is on the list of incident relations of e
onList(s, r, e) == e # None /\ r \in Range(s.relations[e])

\* e is an entity the model has registered and that is not deleted
registered(s, e) == e # None /\ e \in s.nodes \cup s.rels /\ ~s.deleted[e]

\* C29: in every reachable state a relation is registered with the model if
\* and only if it is on the incident lists of both its endpoints, and the
\* endpoints of a registered relation are registered, non-deleted entities.
C29_RegisteredIffAttached ==
    ~hung =>
        \A r \in {x \in Slots : isRelation(Cur, x)} :
            /\ r \in rels <=> (onList(Cur, r, fromNode[r]) /\ onList(Cur, r, toNode[r]))
            /\ r \in rels => (registered(Cur, fromNode[r]) /\ registered(Cur, toNode[r]))

\* ---------------------------------------------------- observed documents
\* the observers of a subject, in the order they subscribed
ObsLists == {<<a, b>> : a \in Observers, b \in Observers} \ {<<a, a>> : a \in Observers}

\* addObserver for each observer of L on the model, on every node and
\* relation type of the document and on their attribute stores
subscribe(s, L) ==
    [s EXCEPT !.observers = [i \in Slots |-> IF i \in Entities(s) THEN L ELSE <<>>],
              !.attrObservers = [i \in Slots |-> IF i \in Entities(s) THEN L ELSE <<>>],
              !.modelObservers = L]

ObsInit == \E L \in ObsLists : InitFrom(subscribe(Diamond, L)) /\ calls = 0 /\ last = NoCall

\* the state a call starts from: the observers' record of the last call is
\* cleared
Fresh == [Cur EXCEPT !.heard = <<>>]

\* the stores a caller writes to
ObsStores == {topNode, topRelation, TypeA, TypeC}

\* e.attrs.add("k", v)
ObsAdd ==
    \E e \in ObsStores, v \in Ints :
        Done("add", e, add(Fresh, e, "k", v, FALSE, TRUE, NoneV, "nil"))

\* e.attrs.config("k", v)
ObsConfig ==
    \E e \in ObsStores, v \in Ints :
        Done("config", e, config(Fresh, e, "k", v, "nil", "nil", NoneV, "nil"))

\* MNode(tgmodel, typ)
ObsMakeNode ==
    \E typ \in TypLists(LiveNodes(Cur)) : Done("MNode", nextID, MNode_new(Fresh, typ))

\* n.delete() for a node of the document
ObsDelete ==
    \E e \in Made(LiveNodes(Cur)) : Done("MNode.delete", e, MObject_delete(Fresh, e))

ObsNext == ObsAdd \/ ObsConfig \/ ObsMakeNode \/ ObsDelete

ObsSpec == ObsInit /\ [][ObsNext]_vars

\* ------------------------------------------------------- observer claims
\* the list a notification went through, as it was in state s
Subscribers(s, d) ==
    IF d.via = "attrs" THEN s.attrObservers[d.src]
    ELSE IF d.via = "object" THEN s.observers[d.src]
    ELSE s.modelObservers

\* every observer of the list q received the notification d
told(s, q, d) == \A o \in Range(q) : Count(s.heard, [d EXCEPT !.o = o]) >= 1

\* every notification made during the call that ended in r reached every
\* observer subscribed to its subject when the call began
allTold(r, vias) ==
    \A i \in 1..Len(r.s.heard) :
        r.s.heard[i].via \in vias => told(r.s, Subscribers(Fresh, r.s.heard[i]), r.s.heard[i])

\* the same state with no observer subscribed anywhere
Quiet(s) ==
    [s EXCEPT !.observers = [i \in Slots |-> <<>>],
              !.attrObservers = [i \in Slots |-> <<>>],
              !.modelObservers = <<>>]

\* no observer that unsubscribes is subscribed
NoLeaver(s) ==
    /\ ~\E i \in 1..Len(s.modelObservers) : s.modelObservers[i] = "leaver"
    /\ \A e \in Slots : /\ ~\E i \in 1..Len(s.observers[e]) : s.observers[e][i] = "leaver"
                        /\ ~\E i \in 1..Len(s.attrObservers[e]) : s.attrObservers[e][i] = "leaver"

\* the call ended as it does with no observer subscribed, and all were told
contained(r, q) == r.err = q.err /\ allTold(r, {"attrs", "object", "model"})

\* C22: an exception raised by one observer's callback is caught: the
\* operation that triggered the notification ends as it would without
\* observers, and every other observer still receives the notification --
\* for the observers of a store, of an entity and of the model (stated for
\* observers none of which unsubscribes).
C22_RaisingObserverIsContained ==
    NoLeaver(Cur) =>
        /\ \A e \in ObsStores, v \in Ints :
              contained(config(Fresh, e, "k", v, "nil", "nil", NoneV, "nil"),
                        config(Quiet(Fresh), e, "k", v, "nil", "nil", NoneV, "nil"))
        /\ \A typ \in TypLists(LiveNodes(Cur)) :
              contained(MNode_new(Fresh, typ), MNode_new(Quiet(Fresh), typ))
        /\ \A e \in Made(LiveNodes(Cur)) :
              contained(MObject_delete(Fresh, e), MObject_delete(Quiet(Fresh), e))

\* C23: when an observer unsubscribes inside its callback, every observer
\* that was subscribed to the store or the entity when the notification began
\* still receives it; and every relation that was on a node's list when
\* delete() began is deleted by the cascade.
C23_UnsubscribingSkipsNoOne ==
    /\ \A e \in ObsStores, v \in Ints :
          allTold(config(Fresh, e, "k", v, "nil", "nil", NoneV, "nil"), {"attrs", "object"})
    /\ \A e \in Made(LiveNodes(Cur)) :
          With(MObject_delete(Fresh, e),
               LAMBDA r : /\ \A o \in Range(observers[e]) :
                                Count(r.s.heard, Heard(o, "object", e, "del", Info("", NoneV, None))) >= 1
                          /\ \A x \in Range(relations[e]) : r.s.deleted[x])

\* C28: whenever the observers of an entity receive 'mod attr' (key, value),
\* value is what the entity's attrs.get(key) returns at that moment.
C28_ToldValueIsStoredValue ==
    \A e \in ObsStores, v \in Ints :
        With(config(Fresh, e, "k", v, "nil", "nil", NoneV, "nil"),
             LAMBDA r : \A i \in 1..Len(r.s.heard) :
                 (r.s.heard[i].via = "object" /\ r.s.heard[i].op = "mod attr")
                 => r.s.heard[i].info.value
                        = get(r.s, r.s.heard[i].src, r.s.heard[i].info.key).value)

\* e and its isa-descendants
Down(s, e) == {x \in Entities(s) : e \in UpRefl(s, x)}

\* C30: an accepted change of k on any entity, topNode and topRelation
\* included, delivers 'mod attr' (k, v) to the observers of the entity and
\* of each of its isa-descendants.
C30_AttrChangeReachesDescendants ==
    \A e \in ObsStores, v \in Ints :
        With(config(Fresh, e, "k", v, "nil", "nil", NoneV, "nil"),
             LAMBDA r : (~r.err /\ v # attrs[e]["k"].value)
                 => \A x \in Down(Cur, e) : \A o \in Range(observers[x]) :
                        Count(r.s.heard, Heard(o, "object", x, "mod attr", Info("k", v, None))) >= 1)
====
